---- MODULE Spec2Model ----
(***************************************************************************)
(* Model of run.py: the weekly check-in document bot.                      *)
(*                                                                         *)
(* Strings that the program splits, parses or formats are modelled as      *)
(* sequences of character codes: 0..9 are the decimal digits, 10..35 are   *)
(* letters, and the codes below are the punctuation the program meets.     *)
(* Times are counted in ticks since Epoch, DayLen ticks to the day, on the *)
(* one clock that both datetime.today() and the service's created_time     *)
(* read.                                                                   *)
(***************************************************************************)
EXTENDS Integers, Sequences, FiniteSets, TLC

\* ---------------------------------------------------------------- bounds
DayLen == 2
MaxTime == 4
MaxHuman == 2
MaxRecords == 4

\* ------------------------------------------------------------ characters
SP == 40
LBR == 42
RBR == 43

IsDigit(c) == c \in 0..9
IsAlnum(c) == c \in 0..35

None == <<>>
Some(v) == <<v>>

\* -------------------------------------------------------------- calendar
Epoch == <<2024, 3, 30>>

IsLeap(y) == (y % 4 = 0 /\ y % 100 # 0) \/ y % 400 = 0

DaysInMonth(y, m) ==
  IF m = 2 THEN (IF IsLeap(y) THEN 29 ELSE 28)
  ELSE IF m \in {4, 6, 9, 11} THEN 30 ELSE 31

NextDay(d) ==
  IF d[3] < DaysInMonth(d[1], d[2]) THEN <<d[1], d[2], d[3] + 1>>
  ELSE IF d[2] < 12 THEN <<d[1], d[2] + 1, 1>>
  ELSE <<d[1] + 1, 1, 1>>

RECURSIVE AddDays(_, _)
AddDays(d, k) == IF k = 0 THEN d ELSE AddDays(NextDay(d), k - 1)

\* datetime.today().date() at tick t
Today(t) == AddDays(Epoch, t \div DayLen)

\* str(n) for n >= 0
RECURSIVE Str(_)
Str(n) == IF n < 10 THEN <<n>> ELSE Str(n \div 10) \o <<n % 10>>

TwoDigits(n) == <<(n \div 10) % 10, n % 10>>

\* d.strftime('%y%m%d')
Strftime(d) == TwoDigits(d[1] % 100) \o TwoDigits(d[2]) \o TwoDigits(d[3])

\* the value of a digit string
RECURSIVE DigitsValue(_)
DigitsValue(s) ==
  IF s = <<>> THEN 0 ELSE 10 * DigitsValue(SubSeq(s, 1, Len(s) - 1)) + s[Len(s)]

AllDigits(s) == \A i \in 1..Len(s) : IsDigit(s[i])

\* int(s) on a token of letters and digits
ToInt(s) ==
  IF s # <<>> /\ AllDigits(s) THEN [err |-> "ok", v |-> DigitsValue(s)]
  ELSE [err |-> "ValueError", v |-> 0]

\* the directive %m at position p taking n characters: 1[0-2] | 0[1-9] | [1-9]
MatchMonth(s, p, n) ==
  /\ p + n - 1 <= Len(s)
  /\ IF n = 2
     THEN \/ s[p] = 1 /\ s[p + 1] \in 0..2
          \/ s[p] = 0 /\ s[p + 1] \in 1..9
     ELSE s[p] \in 1..9

\* the directive %d at position p taking n characters:
\* 3[0-1] | [1-2]\d | 0[1-9] | [1-9]
MatchDay(s, p, n) ==
  /\ p + n - 1 <= Len(s)
  /\ IF n = 2
     THEN \/ s[p] = 3 /\ s[p + 1] \in 0..1
          \/ s[p] \in 1..2 /\ IsDigit(s[p + 1])
          \/ s[p] = 0 /\ s[p + 1] \in 1..9
     ELSE s[p] \in 1..9

\* the splits (month width, day width) in the order the regular expression
\* tries them
StrptimeSplits == << <<2, 2>>, <<2, 1>>, <<1, 2>>, <<1, 1>> >>

StrptimeMatches(s) ==
  { i \in 1..Len(StrptimeSplits) :
      /\ Len(s) >= 2 /\ IsDigit(s[1]) /\ IsDigit(s[2])
      /\ MatchMonth(s, 3, StrptimeSplits[i][1])
      /\ MatchDay(s, 3 + StrptimeSplits[i][1], StrptimeSplits[i][2]) }

Min(S) == CHOOSE x \in S : \A y \in S : x <= y

\* datetime.strptime(s, "%y%m%d"): the first match of the regular
\* expression must cover the whole string and name a day of the calendar
Strptime(s) ==
  LET ms == StrptimeMatches(s) IN
  IF ms = {} THEN [err |-> "ValueError", date |-> Epoch]
  ELSE
    LET sp == StrptimeSplits[Min(ms)]
        yy == DigitsValue(SubSeq(s, 1, 2))
        y  == IF yy <= 68 THEN 2000 + yy ELSE 1900 + yy
        m  == DigitsValue(SubSeq(s, 3, 2 + sp[1]))
        d  == DigitsValue(SubSeq(s, 3 + sp[1], 2 + sp[1] + sp[2]))
    IN IF 2 + sp[1] + sp[2] # Len(s) \/ d > DaysInMonth(y, m)
       THEN [err |-> "ValueError", date |-> Epoch]
       ELSE [err |-> "ok", date |-> <<y, m, d>>]

\* the tokens of a title in its page address: maximal runs of letters and
\* digits, as value.split("-") returns them
RECURSIVE SlugTokens(_, _)
SlugTokens(s, cur) ==
  IF s = <<>> THEN (IF cur = <<>> THEN <<>> ELSE <<cur>>)
  ELSE IF IsAlnum(Head(s)) THEN SlugTokens(Tail(s), Append(cur, Head(s)))
  ELSE (IF cur = <<>> THEN <<>> ELSE <<cur>>) \o SlugTokens(Tail(s), <<>>)

\* get_period() at tick t: <<year, quarter>> stands for "{year}년 {q}분기"
get_period(t) ==
  LET today == Today(t) IN <<today[1], ((today[2] - 1) \div 3) + 1>>

\* parse_url on the address whose part after the prefix splits into toks
parse_url(toks) ==
  IF Len(toks) # 8 THEN [err |-> "ValueError", checkin_day |-> <<>>, index |-> 0]
  ELSE LET i == ToInt(toks[7]) IN
       [err |-> i.err, checkin_day |-> toks[1], index |-> i.v]

\* ------------------------------------------------------- the workspace
\* the users endpoint's answer: the name and id of each workspace member
Users == { <<"H", "uH">>, <<"A", "uA">>, <<"B", "uB">> }

UserIds == { u[2] : u \in Users }

\* make_person_dict: name -> id
make_person_dict == [ n \in { u[1] : u \in Users } |->
                        (CHOOSE u \in Users : u[1] = n)[2] ]

\* ------------------------------------------------------- configuration
necessary_base ==
  {"slack_bot_token", "notion_api_token", "database_id", "notion_version",
   "day_threshold"}

necessary_team ==
  {"channel_id", "team_name", "base_title", "host", "participation",
   "blacklist"}

Drop(f, key) == [ k \in (DOMAIN f) \ {key} |-> f[k] ]

Base(threshold) ==
  [ slack_bot_token |-> "xoxb", notion_api_token |-> "secret",
    database_id |-> "db", notion_version |-> "2022-02-22",
    day_threshold |-> threshold ]

\* "a b c d e " and "a "
LongTitle == <<10, SP, 11, SP, 12, SP, 13, SP, 14, SP>>
ShortTitle == <<10, SP>>

Team(name, title, host, participation, blacklist) ==
  [ channel_id |-> name, team_name |-> name, base_title |-> title,
    host |-> host, participation |-> participation, blacklist |-> blacklist ]

MlTeam == Team("ml", LongTitle, "H", {"H", "A"}, {})
OpsTeam == Team("ops", LongTitle, "H", {"A"}, {})

TeamLists ==
  { <<MlTeam, OpsTeam>>,
    <<Team("ml", LongTitle, "H", {"H", "A"}, {"A"}), OpsTeam>>,
    <<Team("ml", LongTitle, "H", {"A"}, {"A"}), OpsTeam>>,
    <<Team("ml", LongTitle, "H", {"A", "X"}, {}), OpsTeam>>,
    <<Drop(MlTeam, "blacklist"), OpsTeam>>,
    <<OpsTeam, Drop(MlTeam, "channel_id")>>,
    <<Team("ml", ShortTitle, "H", {"H", "A"}, {})>> }

Configs ==
  { [base |-> Base(1), team |-> l] : l \in TeamLists }
    \cup { [base |-> Base(2), team |-> <<MlTeam, OpsTeam>>],
           [base |-> Drop(Base(1), "notion_version"), team |-> <<MlTeam>>] }

\* ------------------------------------------------------------ documents
\* line 134: f"[{day}] {base_title}{index}"
MakeTitle(day, base_title, index) ==
  <<LBR>> \o day \o <<RBR, SP>> \o base_title \o index

\* the id that ends the address of the n-th page of the database
PageId(n) == <<15, n>>

\* the address the service gives the n-th page: the title's tokens and the id
PageUrl(title, n) == Append(SlugTokens(title, <<>>), PageId(n))

\* the titles people give the documents they write themselves
HumanTitles(team) ==
  IF team = "ml"
  THEN { MakeTitle(<<2, 4, 1, 2, 3, 0>>, LongTitle, <<1, 2>>),
         MakeTitle(<<2, 4, 1, 2, 3, 0>>, LongTitle, <<0>>),
         MakeTitle(<<33>>, LongTitle, <<1, 2>>),
         MakeTitle(<<33>>, LongTitle, <<0>>),
         MakeTitle(<<2, 4, 1, 2, 3, 0>>, LongTitle, <<33>>),
         MakeTitle(<<2, 4, 1, 2, 3, 0>>, ShortTitle, <<1, 2>>) }
  ELSE { MakeTitle(<<2, 4, 0, 2, 2, 3>>, LongTitle, <<9>>) }

HumanQuarter == <<2024, 1>>

TeamNames == {"ml", "ops"}

\* the id of the database's Quarter property
QuarterPropId == "prop_quarter"

\* ---------------------------------------------------------------- state
VARIABLES
  cfg,      \* the loaded config file: [base, team]
  db,       \* the pages of the database, in the order of their creation
  now,      \* the clock
  pc,       \* "idle" between runs, "loop" inside main's loop over the teams
  team_idx, \* the position of main's loop in team_cfg_list
  lastRun,  \* the tick at which the latest run started
  log,      \* what the latest run did, one entry per loop iteration entered
  slack     \* the messages the latest run posted

vars == <<cfg, db, now, pc, team_idx, lastRun, log, slack>>

\* ------------------------------------------------------------ functions
\* retrieve_databases: the positions in db of the pages the filter keeps
FilterMatches(pages, team_name) ==
  { i \in 1..Len(pages) :
      /\ team_name \in pages[i].tags
      /\ "OKR" \in pages[i].tags
      /\ "Check-in" \in pages[i].mtype }

Max(S) == CHOOSE x \in S : \A y \in S : y <= x

\* retrieve_databases: sorted by created_time descending, page_size 1;
\* the answer is the position of the latest page, 0 for an empty result
retrieve_databases(pages, team_name) ==
  LET m == FilterMatches(pages, team_name) IN IF m = {} THEN 0 ELSE Max(m)

\* the difference taken in ticks, not in whole days
TimeDiffTicks(t, created) == t - created

\* (datetime.today() - latest_created_time).days
TimeDiffDays(t, created) == (t - created) \div DayLen

\* the comparison off by one day
RecentOffByOne(created_time_diff, day_threshold) ==
  created_time_diff + 1 < day_threshold

\* line 99: the latest page is younger than the threshold
Recent(created_time_diff, day_threshold) == created_time_diff < day_threshold

\* the answer with a first check-in made up when nothing is known
NoCheckBootstrap(err) ==
  [ err |-> err, made |-> FALSE,
    latest_checkin_day |-> Some(<<2, 4, 0, 3, 2, 5>>),
    latest_index |-> Some(1), latest_quater |-> Some(QuarterPropId),
    latest_url |-> None, latest |-> 0 ]

NoCheck(err) ==
  [ err |-> err, made |-> FALSE, latest_checkin_day |-> None,
    latest_index |-> None, latest_quater |-> None, latest_url |-> None,
    latest |-> 0 ]

check_already_made(pages, base_cfg, team_cfg, t, fail) ==
  LET latest == retrieve_databases(pages, team_cfg.team_name) IN
  IF fail = "query" THEN NoCheck("HTTPError")
  ELSE IF latest = 0 THEN NoCheck("ok")
  ELSE
    LET latest_checkin_data == pages[latest]
        latest_url == latest_checkin_data.url
        created_time_diff == TimeDiffDays(t, latest_checkin_data.created)
        parsed == parse_url(latest_url)
    IN IF Recent(created_time_diff, base_cfg.day_threshold)
       THEN [ NoCheck("ok") EXCEPT !.made = TRUE,
                                   !.latest_url = Some(latest_url),
                                   !.latest = latest ]
       ELSE IF parsed.err # "ok"
       THEN [ NoCheck(parsed.err) EXCEPT !.latest = latest ]
       ELSE [ NoCheck("ok") EXCEPT
                !.latest_checkin_day = Some(parsed.checkin_day),
                !.latest_index = Some(parsed.index),
                !.latest_quater = Some(QuarterPropId),
                !.latest = latest ]

\* line 130: set(participation) - set(blacklist)
candidate_name_list(team_cfg) == team_cfg.participation \ team_cfg.blacklist

NoPage == <<>>

\* line 133: the day of the next check-in
NextCheckinDay(latest_day) == AddDays(latest_day, 7)

\* the number of the latest check-in, not incremented
SameIndex(latest_index) == latest_index

\* line 134: the number of the next check-in
NextIndex(latest_index) == latest_index + 1

\* lines 130-143: the exception that building the payload raises, "ok" if
\* none, in the order in which the statements are evaluated
PayloadError(team_cfg, latest_checkin_day) ==
  LET known(names) == names \subseteq DOMAIN make_person_dict IN
  IF ~known(candidate_name_list(team_cfg)) THEN "KeyError"
  ELSE IF Strptime(latest_checkin_day).err # "ok" THEN "ValueError"
  ELSE IF ~known({team_cfg.host}) THEN "KeyError"
  ELSE IF ~known(team_cfg.participation) THEN "KeyError"
  ELSE IF candidate_name_list(team_cfg) = {} THEN "IndexError"
  ELSE "ok"

\* the tags without the category tag
PageTagsNoCategory(team_cfg) == {team_cfg.team_name}

\* line 144: the tags of the new page
PageTags(team_cfg) == {"OKR", team_cfg.team_name}

\* lines 133-148: the page that the payload describes; n is the position the
\* page takes in the database, pick the outcome of random.choice
NewPage(team_cfg, latest_checkin_day, latest_index, t, n, pick) ==
  LET user_name2id == make_person_dict
      check_in_day == NextCheckinDay(Strptime(latest_checkin_day).date)
      title == MakeTitle(Strftime(check_in_day), team_cfg.base_title,
                         Str(NextIndex(latest_index)))
  IN [ title |-> title,
       url |-> PageUrl(title, n),
       date |-> check_in_day,
       quarter |-> get_period(t),
       host |-> user_name2id[team_cfg.host],
       attendees |-> { user_name2id[x] : x \in team_cfg.participation },
       scribe |-> pick,
       tags |-> PageTags(team_cfg),
       mtype |-> {"Check-in"},
       created |-> t,
       by |-> "engine" ]

CreateFailed(err, calls) == [err |-> err, page |-> NoPage, calls |-> calls]

\* create_pages with the writer drawn only after the page was posted
create_pages_late(base_cfg, team_cfg, latest_checkin_day, latest_index, latest_quater, t, n, pick, fail) ==
  IF fail = "users" THEN CreateFailed("HTTPError", <<"users">>)
  ELSE IF PayloadError(team_cfg, latest_checkin_day) \notin {"ok", "IndexError"}
  THEN CreateFailed(PayloadError(team_cfg, latest_checkin_day), <<"users">>)
  ELSE IF fail = "create" THEN CreateFailed("HTTPError", <<"users", "create">>)
  ELSE [ err |-> PayloadError(team_cfg, latest_checkin_day),
         calls |-> <<"users", "create">>,
         page |-> Some(NewPage(team_cfg, latest_checkin_day, latest_index,
                               t, n, pick)) ]

\* create_pages, lines 129-162
create_pages(base_cfg, team_cfg, latest_checkin_day, latest_index, latest_quater, t, n, pick, fail) ==
  IF fail = "users" THEN CreateFailed("HTTPError", <<"users">>)
  ELSE IF PayloadError(team_cfg, latest_checkin_day) # "ok"
  THEN CreateFailed(PayloadError(team_cfg, latest_checkin_day), <<"users">>)
  ELSE IF fail = "create" THEN CreateFailed("HTTPError", <<"users", "create">>)
  ELSE [ err |-> "ok",
         calls |-> <<"users", "create">>,
         page |-> Some(NewPage(team_cfg, latest_checkin_day, latest_index,
                               t, n, pick)) ]

\* the outcomes random.choice(candidate_id_list) can have
RandomChoice(team_cfg) ==
  IF candidate_name_list(team_cfg) \subseteq DOMAIN make_person_dict
  THEN { make_person_dict[x] : x \in candidate_name_list(team_cfg) }
  ELSE {}

\* truth values of Python: None, 0 and "" are false
TruthyInt(o) == o # None /\ o[1] # 0
TruthySeq(o) == o # None /\ o[1] # <<>>
TruthyStr(o) == o # None /\ o[1] # ""

\* the points at which a collaborator may answer with an error
Failures == {"none", "query", "users", "create", "chat"}

Message(team_cfg, kind, url) ==
  [ channel |-> team_cfg.channel_id, team_name |-> team_cfg.team_name,
    kind |-> kind, url |-> url ]

Outcome(err, branch, chk, page, msg, calls) ==
  [ err |-> err, branch |-> branch, chk |-> chk, page |-> page,
    msg |-> msg, calls |-> calls ]

\* lines 199-205 with a failure of create_pages caught and the message
\* posted all the same
CreateBranchSwallow(pages, base_cfg, team_cfg, chk, t, pick, fail) ==
  LET cp == create_pages(base_cfg, team_cfg, chk.latest_checkin_day[1],
                         chk.latest_index[1], chk.latest_quater[1],
                         t, Len(pages) + 1, pick, fail)
  IN IF fail = "chat"
     THEN Outcome("SlackApiError", "create", chk, cp.page, None,
                  <<"query">> \o cp.calls \o <<"chat">>)
     ELSE Outcome(cp.err, "create", chk, cp.page,
                  Some(Message(team_cfg, "ready",
                               IF cp.page = NoPage THEN <<>>
                               ELSE cp.page[1].url)),
                  <<"query">> \o cp.calls \o <<"chat">>)

\* lines 199-205: create the page, then post its address
CreateBranch(pages, base_cfg, team_cfg, chk, t, pick, fail) ==
  LET cp == create_pages(base_cfg, team_cfg, chk.latest_checkin_day[1],
                         chk.latest_index[1], chk.latest_quater[1],
                         t, Len(pages) + 1, pick, fail)
  IN IF cp.err # "ok"
     THEN Outcome(cp.err, "create", chk, cp.page, None,
                  <<"query">> \o cp.calls)
     ELSE IF fail = "chat"
     THEN Outcome("SlackApiError", "create", chk, cp.page, None,
                  <<"query">> \o cp.calls \o <<"chat">>)
     ELSE Outcome("ok", "create", chk, cp.page,
                  Some(Message(team_cfg, "ready", cp.page[1].url)),
                  <<"query">> \o cp.calls \o <<"chat">>)

\* the body of main's loop (lines 191-221) for one team
LoopBody(pages, base_cfg, team_cfg, t, pick, fail) ==
  IF ~(necessary_team \subseteq DOMAIN team_cfg)
  THEN Outcome("AssertionError", "none", NoCheck("ok"), NoPage, None, <<>>)
  ELSE
    LET chk == check_already_made(pages, base_cfg, team_cfg, t, fail) IN
    IF chk.err # "ok"
    THEN Outcome(chk.err, "none", chk, NoPage, None, <<"query">>)
    ELSE IF /\ TruthySeq(chk.latest_checkin_day)
            /\ TruthyInt(chk.latest_index)
            /\ TruthyStr(chk.latest_quater)
    THEN CreateBranch(pages, base_cfg, team_cfg, chk, t, pick, fail)
    ELSE IF TruthySeq(chk.latest_url)
    THEN
      IF fail = "chat"
      THEN Outcome("SlackApiError", "skip", chk, NoPage, None,
                   <<"query", "chat">>)
      ELSE Outcome("ok", "skip", chk, NoPage,
                   Some(Message(team_cfg, "skipped", chk.latest_url[1])),
                   <<"query", "chat">>)
    ELSE
      IF fail = "chat"
      THEN Outcome("SlackApiError", "manual", chk, NoPage, None,
                   <<"query", "chat">>)
      ELSE Outcome("ok", "manual", chk, NoPage,
                   Some(Message(team_cfg, "manual", team_cfg.base_title)),
                   <<"query", "chat">>)

\* the newest page written over instead of a page added
PostPageOver(pages, page) ==
  IF pages = <<>> THEN <<page>> ELSE [pages EXCEPT ![Len(pages)] = page]

\* lines 149-157: POST /v1/pages adds the page to the database
PostPage(pages, page) == Append(pages, page)

\* -------------------------------------------------------------- actions
Init ==
  /\ cfg \in Configs
  /\ db = <<>>
  /\ now = 0
  /\ pc = "idle"
  /\ team_idx = 1
  /\ lastRun = -DayLen
  /\ log = <<>>
  /\ slack = <<>>

\* time passes between runs
Tick ==
  /\ pc = "idle"
  /\ now < MaxTime
  /\ now' = now + 1
  /\ UNCHANGED <<cfg, db, pc, team_idx, lastRun, log, slack>>

HumanCount == Cardinality({ i \in 1..Len(db) : db[i].by = "human" })

\* between runs, at the start of a day, somebody writes a check-in document
\* by hand
HumanAdd ==
  /\ pc = "idle"
  /\ now % DayLen = 0
  /\ HumanCount < MaxHuman
  /\ Len(db) < MaxRecords
  /\ \E team \in TeamNames : \E title \in HumanTitles(team) :
       db' = Append(db,
         [ title |-> title,
           url |-> PageUrl(title, Len(db) + 1),
           date |-> Epoch,
           quarter |-> HumanQuarter,
           host |-> "",
           attendees |-> {},
           scribe |-> "",
           tags |-> {"OKR", team},
           mtype |-> {"Check-in"},
           created |-> now,
           by |-> "human" ])
  /\ UNCHANGED <<cfg, now, pc, team_idx, lastRun, log, slack>>

\* the scheduler starts main, at most once a day: lines 173-188
StartRun ==
  /\ pc = "idle"
  /\ now - lastRun >= DayLen
  /\ lastRun' = now
  /\ slack' = <<>>
  /\ team_idx' = 1
  /\ IF ~(necessary_base \subseteq DOMAIN cfg.base)
     THEN /\ pc' = "idle"
          /\ log' = << [ team |-> 0, before |-> Len(db), name |-> "",
                         err |-> "AssertionError",
                         branch |-> "none", latest |-> 0, created |-> 0,
                         calls |-> <<>> ] >>
     ELSE /\ pc' = IF cfg.team = <<>> THEN "idle" ELSE "loop"
          /\ log' = <<>>
  /\ UNCHANGED <<cfg, db, now>>

\* one iteration of main's loop: lines 190-221
ProcessTeam ==
  /\ pc = "loop"
  /\ Len(db) < MaxRecords
  /\ \E pick \in UserIds : \E fail \in Failures :
       LET team_cfg == cfg.team[team_idx]
           complete == necessary_team \subseteq DOMAIN team_cfg
           r == LoopBody(db, cfg.base, team_cfg, now, pick, fail)
       IN
       /\ complete /\ RandomChoice(team_cfg) # {}
            => pick \in RandomChoice(team_cfg)
       /\ db' = IF r.page = NoPage THEN db ELSE PostPage(db, r.page[1])
       /\ slack' = IF r.msg = None THEN slack ELSE Append(slack, r.msg[1])
       /\ log' = Append(log,
            [ team |-> team_idx,
              before |-> Len(db),
              name |-> IF "team_name" \in DOMAIN team_cfg
                       THEN team_cfg.team_name ELSE "",
              err |-> r.err,
              branch |-> r.branch,
              latest |-> r.chk.latest,
              created |-> IF r.page = NoPage THEN 0 ELSE Len(db) + 1,
              calls |-> r.calls ])
       /\ IF r.err # "ok" \/ team_idx = Len(cfg.team)
          THEN pc' = "idle" /\ team_idx' = team_idx
          ELSE pc' = "loop" /\ team_idx' = team_idx + 1
  /\ UNCHANGED <<cfg, now, lastRun>>

Next == Tick \/ HumanAdd \/ StartRun \/ ProcessTeam

Spec == Init /\ [][Next]_vars

\* ------------------------------------------------------------ properties
Threshold == cfg.base.day_threshold

EnginePages == { i \in 1..Len(db) : db[i].by = "engine" }

HumanPages == { i \in 1..Len(db) : db[i].by = "human" }

SameTeam(i, j) == db[i].tags = db[j].tags

\* the entries of the log that stand for an iteration of the loop
Entries == { k \in 1..Len(log) : log[k].team # 0 }

\* the team's latest page when the iteration of entry e began, 0 if none
LatestAt(e) == retrieve_databases(SubSeq(db, 1, e.before), e.name)

\* the query of entry e was made and answered
Answered(e) ==
  /\ e.calls # <<>>
  /\ ~(e.err = "HTTPError" /\ e.calls = <<"query">>)

\* the age in whole days, at the latest run, of page i
AgeDays(i) == (lastRun - db[i].created) \div DayLen

\* the title of page i follows the convention that the bot reads
WellFormed(i) ==
  /\ parse_url(db[i].url).err = "ok"
  /\ Strptime(parse_url(db[i].url).checkin_day).err = "ok"

\* the number of days from 1 January 2000 to the date d
DaysBeforeMonth(y, m) ==
  LET cum == <<0, 31, 59, 90, 120, 151, 181, 212, 243, 273, 304, 334>>
  IN cum[m] + (IF m > 2 /\ IsLeap(y) THEN 1 ELSE 0)

LeapYearsBefore(y) ==
  Cardinality({ z \in 2000..(y - 1) : IsLeap(z) })

DayNumber(d) ==
  365 * (d[1] - 2000) + LeapYearsBefore(d[1]) + DaysBeforeMonth(d[1], d[2])
    + d[3] - 1

\* C1: any two pages that the bot created for one team were created at
\* least day_threshold days apart, whatever people added in between.
C1_OnePerWindow ==
  \A i \in EnginePages : \A j \in EnginePages :
    (i < j /\ SameTeam(i, j))
      => db[j].created - db[i].created >= Threshold * DayLen

\* two pages of the bot for one team, with a page written by hand between
C1_Witness ==
  \E i \in EnginePages : \E j \in EnginePages : \E h \in HumanPages :
    i < h /\ h < j /\ SameTeam(i, j) /\ SameTeam(i, h)

C3_CreateWhenDue ==
  \A k \in Entries :
    LET e == log[k]
        l == LatestAt(e)
    IN (e.err = "ok" /\ l # 0 /\ WellFormed(l) /\ AgeDays(l) >= Threshold)
         => e.branch = "create" /\ e.created # 0

\* the pages the bot created in the latest run, with the page each came from
Created == { k \in Entries : log[k].created # 0 }

\* the number written at the end of the title of a page of the bot
TitleIndexIs(page, base_title, index) ==
  page.title = MakeTitle(Strftime(page.date), base_title, Str(index))

\* C4: a page the bot creates carries the number of the team's latest
\* page plus 1 and the date of that page plus 7 days; and a page of the bot
\* that follows another page of the bot for the same team, with no page
\* written by hand between them, is dated 7 days after it.
C4_NextInSequence ==
  /\ \A k \in Created :
       LET e == log[k]
           p == db[e.created]
           l == LatestAt(e)
           u == parse_url(db[l].url)
           d == Strptime(u.checkin_day)
       IN /\ l # 0
          /\ u.err = "ok" /\ d.err = "ok"
          /\ TitleIndexIs(p, cfg.team[e.team].base_title, u.index + 1)
          /\ DayNumber(p.date) = DayNumber(d.date) + 7
  /\ \A i \in EnginePages : \A j \in EnginePages :
       (/\ i < j /\ SameTeam(i, j)
        /\ \A h \in (i + 1)..(j - 1) : ~SameTeam(i, h))
         => /\ DayNumber(db[j].date) = DayNumber(db[i].date) + 7
            /\ parse_url(db[j].url).index = parse_url(db[i].url).index + 1

\* two pages of the bot in a row for one team, across the end of a year
C4_Witness ==
  \E i \in EnginePages : \E j \in EnginePages :
    /\ i < j /\ SameTeam(i, j)
    /\ \A h \in (i + 1)..(j - 1) : ~SameTeam(i, h)
    /\ db[i].date[1] = 2025
    /\ \E k \in Created : log[k].created = j

\* the people the specification lets take the minutes for a team
Eligible(team_cfg) ==
  (team_cfg.participation \ team_cfg.blacklist) \ {team_cfg.host}

\* C5 as claimed: the writer of every page the bot creates is one of the
\* attendees that are neither excluded nor the host.
C5_ScribeEligible ==
  \A k \in Created :
    LET e == log[k]
        team_cfg == cfg.team[e.team]
    IN \E x \in Eligible(team_cfg) :
         db[e.created].scribe = make_person_dict[x]

\* C6 as claimed: when a creation is due for a team none of whose attendees
\* is eligible, the iteration fails and creates no page.
C6_EmptyPoolFails ==
  \A k \in Entries :
    LET e == log[k] IN
    (e.branch = "create" /\ Eligible(cfg.team[e.team]) = {})
      => e.err # "ok" /\ e.created = 0

\* C7 as claimed: a page the bot creates carries the period label of the
\* team's latest page.
C7_CarryForward ==
  \A k \in Created :
    db[log[k].created].quarter = db[LatestAt(log[k])].quarter

\* a run is over
RunOver == pc = "idle" /\ lastRun >= 0

\* C8 as claimed: when a run is over in which the iteration of one team
\* failed, every other team of the list has had its iteration.
C8_OthersProcessed ==
  (RunOver /\ \E k \in Entries : log[k].err # "ok")
    => \A i \in 1..Len(cfg.team) : \E k \in Entries : log[k].team = i

CoreErrors == {"ValueError", "IndexError", "AssertionError", "KeyError"}

\* C9: when the iteration of a team fails with a core error, the run has
\* created no page for that team and has posted no "ready" message for it.
C9_FailureLeavesNothing ==
  \A k \in Entries :
    LET e == log[k] IN
    e.err \in CoreErrors
      => /\ e.created = 0
         /\ \A i \in EnginePages :
              ~(db[i].created = lastRun /\ e.name \in db[i].tags)
         /\ \A m \in 1..Len(slack) :
              ~(slack[m].kind = "ready" /\ slack[m].team_name = e.name)

\* a due creation that failed because nobody could be drawn as the writer
C9_Witness ==
  \E k \in Entries :
    /\ log[k].err = "IndexError"
    /\ log[k].branch = "create"
    /\ LatestAt(log[k]) # 0
    /\ AgeDays(LatestAt(log[k])) >= Threshold

\* C10 as claimed: when a creation is due and the title of the latest page
\* does not follow the convention, the iteration fails with an error and
\* creates no page.
C10_MalformedFails ==
  \A k \in Entries :
    LET e == log[k]
        l == LatestAt(e)
    IN (Answered(e) /\ l # 0 /\ AgeDays(l) >= Threshold /\ ~WellFormed(l))
         => e.err # "ok" /\ e.created = 0

\* C11 as claimed: when a run fails on a required field missing from the
\* base config or from the config of a team, no iteration of that run has
\* made a network call.
C11_FailsBeforeCalls ==
  (\E k \in 1..Len(log) : log[k].err = "AssertionError")
    => /\ \A j \in 1..Len(log) : log[j].calls = <<>>
       /\ slack = <<>>

\* the iteration about to be made is for a complete team config whose query
\* finds no page
NoPriorNext ==
  /\ pc = "loop"
  /\ necessary_team \subseteq DOMAIN cfg.team[team_idx]
  /\ retrieve_databases(db, cfg.team[team_idx].team_name) = 0

\* C12: an iteration whose query finds no page of the team leaves the
\* database as it is, takes the branch of the "create the first one by
\* hand" message and, unless a collaborator answers with an error, posts
\* that message to the team's channel.
C12_NoBootstrap ==
  [][ NoPriorNext =>
        /\ db' = db
        /\ LET e == log'[Len(log')]
               team_cfg == cfg.team[team_idx]
           IN /\ e.created = 0
              /\ e.err \in {"ok", "HTTPError", "SlackApiError"}
              /\ e.err = "HTTPError" => e.calls = <<"query">>
              /\ e.err # "HTTPError" => e.branch = "manual"
              /\ IF e.err = "ok"
                 THEN slack' = Append(slack,
                        [ channel |-> team_cfg.channel_id,
                          team_name |-> team_cfg.team_name,
                          kind |-> "manual",
                          url |-> team_cfg.base_title ])
                 ELSE slack' = slack ]_vars

\* a team without any page was told to create the first one by hand, while
\* another team has pages
C12_Witness ==
  \E k \in Entries :
    /\ log[k].err = "ok" /\ log[k].branch = "manual"
    /\ FilterMatches(db, log[k].name) = {}
    /\ Len(db) > 0
    /\ \E m \in 1..Len(slack) :
         slack[m].kind = "manual" /\ slack[m].channel = log[k].name

\* the messages of the latest run that went to the channel of entry e
MessagesFor(e) ==
  { m \in 1..Len(slack) : slack[m].channel = cfg.team[e.team].channel_id }

\* C13 as claimed: an iteration that completes without error has posted
\* exactly one message to the team's channel: "ready" with the address of
\* the new page exactly when a page was created, "skipped" with the address
\* of the latest page exactly when that page is younger than the threshold,
\* "manual" exactly when the team has no page.
C13_MessageMatchesOutcome ==
  \A k \in Entries :
    LET e == log[k]
        l == LatestAt(e)
    IN e.err = "ok" =>
         /\ Cardinality(MessagesFor(e)) = 1
         /\ \A m \in MessagesFor(e) :
              /\ slack[m].kind = "ready"
                   <=> e.created # 0
              /\ slack[m].kind = "ready"
                   => slack[m].url = db[e.created].url
              /\ slack[m].kind = "skipped"
                   <=> (l # 0 /\ AgeDays(l) < Threshold)
              /\ slack[m].kind = "skipped"
                   => slack[m].url = db[l].url
              /\ slack[m].kind = "manual" <=> l = 0

\* the config of the team whose name page i carries
TeamOfPage(i) ==
  cfg.team[CHOOSE j \in 1..Len(cfg.team) :
             cfg.team[j].team_name \in db[i].tags]

\* C14 as claimed: the address of every page the bot creates parses back to
\* the date and the number its title was made of, whatever the base title.
C14_RoundTrip ==
  \A i \in EnginePages :
    LET u == parse_url(db[i].url)
        d == Strptime(u.checkin_day)
    IN /\ u.err = "ok"
       /\ d.err = "ok"
       /\ d.date = db[i].date
       /\ TitleIndexIs(db[i], TeamOfPage(i).base_title, u.index)

\* the database as the latest run found it
AtRunStart == SubSeq(db, 1, log[1].before)

\* what the iteration of team i does when it is the first of the run and
\* no collaborator answers with an error
Alone(i) ==
  LoopBody(AtRunStart, cfg.base, cfg.team[i], lastRun,
           CHOOSE u \in UserIds : TRUE, "none")

\* C15 as claimed: when a run is over, every team of the list has the
\* outcome it has when it is processed first, so that no order of the teams
\* changes the outcome of any of them.
C15_OrderIndependent ==
  (RunOver /\ Entries # {})
    => \A i \in 1..Len(cfg.team) :
         \E k \in Entries :
           /\ log[k].team = i
           /\ log[k].err \in CoreErrors \cup {"ok"}
                => /\ log[k].err = Alone(i).err
                   /\ log[k].branch = Alone(i).branch
                   /\ log[k].created # 0 <=> Alone(i).page # NoPage

\* the orders in which one iteration makes its network calls
CallOrders ==
  { <<>>, <<"query">>, <<"query", "chat">>, <<"query", "users">>,
    <<"query", "users", "create">>,
    <<"query", "users", "create", "chat">> }

\* C16: an iteration queries, then creates, then notifies: a "ready"
\* message is posted only after the create request of the same run has
\* succeeded and carries the address of the page it created, and after a
\* failed create request no message is posted for the team.
C16_CreateThenNotify ==
  \A k \in Entries :
    LET e == log[k]
        msgs == { m \in 1..Len(slack) : slack[m].team_name = e.name }
    IN /\ e.calls \in CallOrders
       /\ \A m \in msgs :
            slack[m].kind = "ready"
              => /\ e.created # 0
                 /\ e.calls = <<"query", "users", "create", "chat">>
                 /\ db[e.created].created = lastRun
                 /\ slack[m].url = db[e.created].url
       /\ e.calls = <<"query", "users", "create">>
            => msgs = {} /\ e.created = 0 /\ e.err = "HTTPError"

\* a due creation whose create request failed
C16_Witness ==
  \E k \in Entries :
    /\ log[k].calls = <<"query", "users", "create">>
    /\ log[k].err = "HTTPError"
    /\ LatestAt(log[k]) # 0
    /\ \A m \in 1..Len(slack) : slack[m].team_name # log[k].name

\* the step is one of the bot: the start of a run or a loop iteration
EngineStep == pc = "loop" \/ lastRun' # lastRun

\* C17: a step of the bot leaves every page of the database as it is and
\* adds at most one page, and never a second page for a team in one run.
C17_AppendOnly ==
  [][ EngineStep =>
        /\ Len(db') \in {Len(db), Len(db) + 1}
        /\ SubSeq(db', 1, Len(db)) = db
        /\ Len(db') > Len(db) =>
             \A i \in 1..Len(db) :
               ~(/\ db[i].by = "engine"
                 /\ db[i].created = now
                 /\ db[i].tags = db'[Len(db')].tags) ]_vars

\* a run that created a page for one team and none for another
C17_Witness ==
  /\ RunOver
  /\ \E k \in Created : \E j \in Entries :
       /\ log[j].created = 0
       /\ log[j].branch \in {"skip", "manual"}
       /\ Len(db) = log[1].before + 1

\* C18: a page the bot creates for a team carries the category tag, the
\* name of the team and no other name, and the check-in type, so that it
\* is the answer of the team's query right after its creation and is not
\* among the pages the query of any other team keeps.
C18_FoundByOwnTeamOnly ==
  \A k \in Created :
    LET e == log[k]
        p == db[e.created]
    IN /\ p.tags = {"OKR", e.name}
       /\ p.mtype = {"Check-in"}
       /\ retrieve_databases(SubSeq(db, 1, e.created), e.name) = e.created
       /\ \A n \in TeamNames \ {e.name} :
            e.created \notin FilterMatches(db, n)

\* a page created for one team while the other team has pages too
C18_Witness ==
  \E k \in Created :
    /\ \E n \in TeamNames \ {log[k].name} : FilterMatches(db, n) # {}
    /\ Cardinality(FilterMatches(db, log[k].name)) >= 2

====
